---- MODULE Spec2Model ----
(***************************************************************************)
(* A model of src/weather/weather.py: the four tools of the weather MCP    *)
(* server (get_weather_alerts, get_forecast, get_indian_forecast, my_tool) *)
(* and the two helpers they use (make_nws_request, format_alert).          *)
(*                                                                         *)
(* Every tool is an asyncio coroutine.  The code between two awaits runs   *)
(* without interruption, so each action below is one such segment: from    *)
(* the call to the first await, or from the completion of an awaited GET   *)
(* to the next await, the return, or the raise.  The outcome of a GET is   *)
(* chosen by the environment (the network and the provider).               *)
(*                                                                         *)
(* Python values are represented as follows.  A JSON object is a function  *)
(* from its keys to its values, a JSON array a sequence, a JSON string a   *)
(* string, a JSON integer an integer.  A field that is present has the     *)
(* type the provider documents for it; any field may be absent.  A float   *)
(* argument is represented in tenths (400 is 40.0).                        *)
(***************************************************************************)
EXTENDS Integers, Sequences, FiniteSets, TLC

VARIABLES frames    \* frames[i]: the coroutine frame of invocation slot i

vars == <<frames>>

------------------------------------------------------------------------------
(* Bounds of the model *)

MaxInv == 2         \* concurrently running invocations (SpecConc)
MaxPeriods == 4     \* longest forecast period sequence a provider returns
MaxFeatures == 2    \* longest alert feature sequence a provider returns

(* Program constants *)

PeriodLimit == 3    \* periods[:3]

API_BASE_URL == "https://api.weather.gov"

------------------------------------------------------------------------------
(* Python values *)

None == [py |-> "None"]            \* Python's None
Unbound == [py |-> "unbound"]      \* a local name not assigned yet
NotJson == [py |-> "not json"]     \* a response body json() cannot decode
EmptyDict == <<>>                  \* {} (the function with empty domain)

\* v is the special value w (None, Unbound or NotJson), for v a special value
\* or a dict.
Is(v, w) == "py" \in DOMAIN v /\ v = w

\* Truth value testing, "not v", of a value that is None or a dict, and of a
\* list.
Falsy(v) == Is(v, None) \/ DOMAIN v = {}
FalsyListNever(v) == FALSE      \* the test of the empty list left out
FalsyList(v) == Len(v) = 0

\* dict.get(key) with the default left out: an absent key reads as None, which
\* an f-string prints as "None".
GetNoDefault(d, key, default) == IF key \in DOMAIN d THEN d[key] ELSE "None"

\* dict.get(key, default)
Get(d, key, default) == IF key \in DOMAIN d THEN d[key] ELSE default

Restrict(d, keys) == [k \in keys |-> d[k]]

\* sep.join(seq)
RECURSIVE Join(_, _)
Join(sep, seq) ==
    IF seq = <<>> THEN ""
    ELSE IF Len(seq) = 1 THEN seq[1]
    ELSE seq[1] \o sep \o Join(sep, Tail(seq))

\* seq with the slice left out.
SliceAll(seq, n) == seq

\* seq[:n]
Slice(seq, n) == [k \in 1..(IF Len(seq) < n THEN Len(seq) ELSE n) |-> seq[k]]

\* f"{x}" of a float given in tenths: 400 is "40.0", -755 is "-75.5"
FloatStr(n) ==
    LET a == IF n < 0 THEN -n ELSE n
    IN  (IF n < 0 THEN "-" ELSE "") \o ToString(a \div 10) \o "." \o ToString(a % 10)

------------------------------------------------------------------------------
(* What the providers and the network can answer *)

AlertFields == {"event", "areaDesc", "severity", "description", "instruction"}

PeriodFields == {"name", "temperature", "temperatureUnit", "windSpeed",
                 "windDirection", "detailedForecast"}

FullProps == [event |-> "Flood Warning", areaDesc |-> "Sacramento County",
              severity |-> "Severe", description |-> "River is rising",
              instruction |-> "Move to higher ground"]

OtherProps == [event |-> "Heat Advisory", areaDesc |-> "Yolo County",
               severity |-> "Moderate", description |-> "Hot afternoon",
               instruction |-> "Drink water"]

\* An alert feature whose properties object holds the fields in keys.
Feature(props, keys) == [id |-> "urn:alert", properties |-> Restrict(props, keys)]

\* A feature without the properties object.
BareFeature == [id |-> "urn:bare"]

Features == {Feature(FullProps, K) : K \in SUBSET AlertFields} \cup {BareFeature}

\* The features that occur in sequences of two or more.
ListFeatures == {Feature(FullProps, AlertFields), Feature(OtherProps, AlertFields),
                 Feature(FullProps, {}), BareFeature}

FeatureLists ==
    {<<>>} \cup {<<f>> : f \in Features}
           \cup UNION {[1..n -> ListFeatures] : n \in 2..MaxFeatures}

Period1 == [name |-> "Tonight", temperature |-> 55, temperatureUnit |-> "F",
            windSpeed |-> "5 mph", windDirection |-> "NW",
            detailedForecast |-> "Clear"]

Period2 == [name |-> "Wednesday", temperature |-> -3, temperatureUnit |-> "C",
            windSpeed |-> "10 to 15 mph", windDirection |-> "S",
            detailedForecast |-> "Snow likely"]

\* Sequences of complete periods, and sequences of MaxPeriods periods one of
\* which lacks one field.
CompletePeriodLists == UNION {[1..n -> {Period1, Period2}] : n \in 0..MaxPeriods}

BrokenPeriodLists ==
    {[j \in 1..MaxPeriods |->
        IF j = k THEN Restrict(Period1, PeriodFields \ {f}) ELSE Period2] :
     k \in 1..MaxPeriods, f \in PeriodFields}

PeriodLists == CompletePeriodLists \cup BrokenPeriodLists

ForecastUrls == {"https://api.weather.gov/gridpoints/STO/41,68/forecast",
                 "https://api.weather.gov/gridpoints/PHI/49,75/forecast"}

Problem == [title |-> "Not Found"]          \* a JSON object with no expected key

AlertBodies == {[features |-> fl] : fl \in FeatureLists}
PointsBodies == {[properties |-> [forecast |-> u]] : u \in ForecastUrls}
ForecastBodies == {[properties |-> [periods |-> ps]] : ps \in PeriodLists}
OddBodies == {EmptyDict, Problem, [properties |-> EmptyDict]}

NwsBodies == AlertBodies \cup PointsBodies \cup ForecastBodies \cup OddBodies

\* The outcome of one GET: the transport fails, or a response arrives with a
\* status code and a body.
Failed(kind) == [kind |-> kind, status |-> 0, body |-> NotJson]
Response(status, body) == [kind |-> "response", status |-> status, body |-> body]

TransportFailures == {Failed("connect_error"), Failed("timeout")}

NwsOutcomes ==
    TransportFailures
    \cup {Response(200, b) : b \in NwsBodies \cup {NotJson}}
    \cup {Response(s, b) : s \in {404, 500},
                           b \in {Problem, NotJson, [features |-> <<>>]}}

Hourly == [hourly |-> [temperature_2m |-> <<31, 33>>]]
MeteoError == [error |-> TRUE, reason |-> "Latitude must be in range of -90 to 90"]

MeteoBodies == {Hourly, MeteoError, EmptyDict}

MeteoOutcomes ==
    TransportFailures
    \cup {Response(200, b) : b \in MeteoBodies \cup {NotJson}}
    \cup {Response(400, MeteoError), Response(500, NotJson)}

\* Arguments of the tools
StateCodes == {"CA", "NY"}
Coordinates == {400, -755}
InputStrings == {"", "x", "a \"b\"\n"}

------------------------------------------------------------------------------
(* The helpers *)

\* What a call yields to its caller: a returned value, or a raised exception.
Returns(v) == [ret |-> v, exc |-> ""]
Raises(e) == [ret |-> None, exc |-> e]

\* client.get(...): the transport's exception, if it fails.
TransportError(o) ==
    IF o.kind = "connect_error" THEN "ConnectError"
    ELSE IF o.kind = "timeout" THEN "TimeoutException"
    ELSE ""

\* make_nws_request with raise_for_status left out.
make_nws_request_no_status(o) ==
    IF TransportError(o) # "" THEN Returns(None)
    ELSE IF Is(o.body, NotJson) THEN Returns(None)
    ELSE Returns(o.body)

\* make_nws_request with response.json() after the try.
make_nws_request_json_after_try(o) ==
    IF TransportError(o) # "" THEN Returns(None)
    ELSE IF o.status \notin 200..299 THEN Returns(None)
    ELSE IF Is(o.body, NotJson) THEN Raises("JSONDecodeError")
    ELSE Returns(o.body)

\* make_nws_request(url), given the outcome of its GET: get, raise_for_status
\* and json all run inside the try, and "except Exception" returns None.
make_nws_request(o) ==
    IF TransportError(o) # "" THEN Returns(None)
    ELSE IF o.status \notin 200..299 THEN Returns(None)
    ELSE IF Is(o.body, NotJson) THEN Returns(None)
    ELSE Returns(o.body)

\* format_alert(feature); feature["properties"] is a subscription, the five
\* fields are read with props.get(key, default).
format_alert(feature) ==
    IF "properties" \notin DOMAIN feature THEN Raises("KeyError")
    ELSE LET props == feature["properties"]
         IN  Returns(
               "\n        Event: " \o Get(props, "event", "Unknown")
            \o "\n        Area: " \o Get(props, "areaDesc", "Unknown")
            \o "\n        Severity: " \o Get(props, "severity", "Unknown")
            \o "\n        Description: "
            \o Get(props, "description", "No description available")
            \o "\n        Instructions: "
            \o Get(props, "instruction", "No specific instructions provided")
            \o "\n        ")

\* The f-string of the loop body of get_forecast; every field is a subscription.
format_period(period) ==
    IF PeriodFields \ DOMAIN period # {} THEN Raises("KeyError")
    ELSE Returns(
               "\n            " \o period["name"] \o ":"
            \o "\n            Temperature: " \o ToString(period["temperature"])
            \o "Â°" \o period["temperatureUnit"]
            \o "\n            Wind: " \o period["windSpeed"] \o " "
            \o period["windDirection"]
            \o "\n            Forecast: " \o period["detailedForecast"]
            \o "\n        ")

\* str(data) of a decoded open-meteo body: the repr of a dict.
PyStr(data) ==
    IF DOMAIN data = {} THEN "{}"
    ELSE IF "error" \in DOMAIN data
    THEN "{'error': " \o (IF data["error"] THEN "True" ELSE "False")
         \o ", 'reason': '" \o data["reason"] \o "'}"
    ELSE LET t == data["hourly"]["temperature_2m"]
         IN  "{'hourly': {'temperature_2m': ["
             \o Join(", ", [k \in 1..Len(t) |-> ToString(t[k])]) \o "]}}"

------------------------------------------------------------------------------
(* Coroutine frames *)

IdleFrame ==
    [op |-> "", pc |-> "idle",
     state |-> "", lat |-> 0, lon |-> 0, input_string |-> "",
     data |-> Unbound, forecast_data |-> Unbound,
     alerts |-> <<>>, forecasts |-> <<>>,
     requests |-> <<>>,       \* the URLs this invocation sent a GET to
     outcomes |-> <<>>,       \* the outcomes of those GETs, as they completed
     result |-> "", exc |-> ""]

Return(f, text) == [f EXCEPT !.pc = "returned", !.result = text]
Raise(f, e) == [f EXCEPT !.pc = "raised", !.exc = e]
\* The frame sends a GET to url and waits at pc.
Await(f, url, pc) == [f EXCEPT !.pc = pc, !.requests = Append(@, url)]
\* The GET the frame waits for completes with outcome o.
Received(f, o) == [f EXCEPT !.outcomes = Append(@, o)]

NO_ALERTS_FOUND == "No alerts found or unable to fetch alerts"
NO_ACTIVE_ALERTS == "No active weather alerts for the specified state."
UNABLE_TO_FETCH == "Unable to fetch forecast data."

\* get_weather_alerts(state), up to the await of the GET.
get_weather_alerts_call(f, state) ==
    Await([f EXCEPT !.op = "get_weather_alerts", !.state = state],
         API_BASE_URL \o "/alerts/active/area/" \o state, "await_alerts")

\* get_weather_alerts after "data = await make_nws_request(url)", r being what
\* the helper yielded: the two tests and the formatting.
get_weather_alerts_after(f, r) ==
    LET g == [f EXCEPT !.data = r.ret]
        data == r.ret
    IN  IF r.exc # "" THEN Raise(f, r.exc)
        ELSE IF Falsy(data) \/ "features" \notin DOMAIN data
        THEN Return(g, NO_ALERTS_FOUND)
        ELSE IF FalsyList(data["features"])
        THEN Return(g, NO_ACTIVE_ALERTS)
        ELSE LET fs == data["features"]
                 formatted == [k \in 1..Len(fs) |-> format_alert(fs[k])]
             IN  IF \E k \in 1..Len(fs) : formatted[k].exc # ""
                 THEN Raise(g, "KeyError")
                 ELSE LET alerts == [k \in 1..Len(fs) |-> formatted[k].ret]
                      IN  Return([g EXCEPT !.alerts = alerts],
                                 Join("\n----\n", alerts))

\* get_weather_alerts that sends its GET once more when the first one yields
\* nothing.
get_weather_alerts_resume_retry(f, o) ==
    IF Falsy(make_nws_request(o).ret) /\ Len(f.requests) < 2
    THEN Await(Received(f, o), f.requests[1], "await_alerts")
    ELSE get_weather_alerts_after(Received(f, o), make_nws_request(o))

\* get_weather_alerts, from the completion of the GET to the return.
get_weather_alerts_resume(f, o) ==
    get_weather_alerts_after(Received(f, o), make_nws_request(o))

\* get_forecast(lat, lon), up to the await of the first GET.
get_forecast_call(f, lat, lon) ==
    Await([f EXCEPT !.op = "get_forecast", !.lat = lat, !.lon = lon],
         API_BASE_URL \o "/points/" \o FloatStr(lat) \o "," \o FloatStr(lon)
                      \o "/forecast",
         "await_points")

\* get_forecast after the first "await make_nws_request": the test, and the
\* second GET.
get_forecast_after_points(f, r) ==
    LET g == [f EXCEPT !.data = r.ret]
        data == r.ret
    IN  IF r.exc # "" THEN Raise(f, r.exc)
        ELSE IF \/ Falsy(data)
                \/ "properties" \notin DOMAIN data
                \/ "forecast" \notin DOMAIN data["properties"]
        THEN Return(g, UNABLE_TO_FETCH)
        ELSE Await(g, data["properties"]["forecast"], "await_forecast")

\* get_forecast that reads the forecast URL with a default instead of testing
\* for it: data.get("properties", {}).get("forecast", API_BASE_URL).
get_forecast_resume_points_default(f, o) ==
    LET r == make_nws_request(o)
        g == [Received(f, o) EXCEPT !.data = r.ret]
    IN  IF Falsy(r.ret) THEN Return(g, UNABLE_TO_FETCH)
        ELSE Await(g, Get(Get(r.ret, "properties", EmptyDict), "forecast",
                          API_BASE_URL),
                   "await_forecast")

\* get_forecast, from the completion of the first GET to the await of the
\* second one, or to the return.
get_forecast_resume_points(f, o) ==
    get_forecast_after_points(Received(f, o), make_nws_request(o))

\* get_forecast after the second "await make_nws_request": the test, the
\* slice and the loop.
get_forecast_after_forecast(f, r) ==
    LET g == [f EXCEPT !.forecast_data = r.ret]
        forecast_data == r.ret
    IN  IF r.exc # "" THEN Raise(f, r.exc)
        ELSE IF Falsy(forecast_data) THEN Return(g, UNABLE_TO_FETCH)
        ELSE IF "properties" \notin DOMAIN forecast_data THEN Raise(g, "KeyError")
        ELSE IF "periods" \notin DOMAIN forecast_data["properties"]
        THEN Raise(g, "KeyError")
        ELSE LET periods == forecast_data["properties"]["periods"]
                 taken == Slice(periods, PeriodLimit)
                 formatted == [k \in 1..Len(taken) |-> format_period(taken[k])]
             IN  IF \E k \in 1..Len(taken) : formatted[k].exc # ""
                 THEN Raise(g, "KeyError")
                 ELSE LET forecasts == [k \in 1..Len(taken) |-> formatted[k].ret]
                      IN  Return([g EXCEPT !.forecasts = forecasts],
                                 Join("\n---\n", forecasts))

\* get_forecast, from the completion of the second GET to the return.
get_forecast_resume_forecast(f, o) ==
    get_forecast_after_forecast(Received(f, o), make_nws_request(o))

\* get_indian_forecast(lat, lon), up to the await of the GET.
get_indian_forecast_call(f, lat, lon) ==
    Await([f EXCEPT !.op = "get_indian_forecast", !.lat = lat, !.lon = lon],
         "https://api.open-meteo.com/v1/forecast?latitude=" \o FloatStr(lat)
            \o "&longitude=" \o FloatStr(lon) \o "&hourly=temperature_2m",
         "await_get")

\* get_indian_forecast with the fail-soft policy of the other tools.
get_indian_forecast_resume_soft(f, o) ==
    LET g == Received(f, o)
    IN  IF TransportError(o) # "" \/ Is(o.body, NotJson)
        THEN Return(g, UNABLE_TO_FETCH)
        ELSE Return([g EXCEPT !.data = o.body], PyStr(o.body))

\* get_indian_forecast, from the completion of the GET to the return: no try,
\* no raise_for_status.
get_indian_forecast_resume(f, o) ==
    LET g == Received(f, o)
    IN  IF TransportError(o) # "" THEN Raise(g, TransportError(o))
        ELSE IF Is(o.body, NotJson) THEN Raise(g, "JSONDecodeError")
        ELSE Return([g EXCEPT !.data = o.body], PyStr(o.body))

\* my_tool(input_string): no await.
my_tool(f, input_string) ==
    Return([f EXCEPT !.op = "my_tool", !.input_string = input_string],
           "This is a test tool that returns the input string: " \o input_string)

------------------------------------------------------------------------------
(* The server: invocation slots, each running at most one tool call *)

Slots == 1..MaxInv

Init == frames = [i \in Slots |-> IdleFrame]

CallAlerts(i, state) ==
    /\ frames[i].pc = "idle"
    /\ frames' = [frames EXCEPT ![i] = get_weather_alerts_call(@, state)]

\* ResumeAlerts with a response kept in one place for all invocations: the
\* invocation reads the response another invocation received last.
ResumeAlertsShared(i, o) ==
    /\ frames[i].pc = "await_alerts"
    /\ LET others == {j \in Slots \ {i} : frames[j].outcomes # <<>>}
           shared == IF others = {} THEN o
                     ELSE LET j == CHOOSE j \in others : TRUE
                          IN  frames[j].outcomes[Len(frames[j].outcomes)]
       IN  frames' = [frames EXCEPT ![i] =
                        get_weather_alerts_after(Received(@, o),
                                                 make_nws_request(shared))]

ResumeAlerts(i, o) ==
    /\ frames[i].pc = "await_alerts"
    /\ frames' = [frames EXCEPT ![i] = get_weather_alerts_resume(@, o)]

CallForecast(i, lat, lon) ==
    /\ frames[i].pc = "idle"
    /\ frames' = [frames EXCEPT ![i] = get_forecast_call(@, lat, lon)]

ResumePoints(i, o) ==
    /\ frames[i].pc = "await_points"
    /\ frames' = [frames EXCEPT ![i] = get_forecast_resume_points(@, o)]

ResumeForecast(i, o) ==
    /\ frames[i].pc = "await_forecast"
    /\ frames' = [frames EXCEPT ![i] = get_forecast_resume_forecast(@, o)]

CallIndianForecast(i, lat, lon) ==
    /\ frames[i].pc = "idle"
    /\ frames' = [frames EXCEPT ![i] = get_indian_forecast_call(@, lat, lon)]

ResumeIndianForecast(i, o) ==
    /\ frames[i].pc = "await_get"
    /\ frames' = [frames EXCEPT ![i] = get_indian_forecast_resume(@, o)]

CallMyTool(i, input_string) ==
    /\ frames[i].pc = "idle"
    /\ frames' = [frames EXCEPT ![i] = my_tool(@, input_string)]

\* The host takes the result or the error; the frame is gone.
Finish(i) ==
    /\ frames[i].pc \in {"returned", "raised"}
    /\ frames' = [frames EXCEPT ![i] = IdleFrame]

\* One client, one invocation at a time, every answer of the providers.
Next ==
    \/ \E s \in StateCodes : CallAlerts(1, s)
    \/ \E o \in NwsOutcomes : ResumeAlerts(1, o)
    \/ \E lat \in Coordinates, lon \in Coordinates : CallForecast(1, lat, lon)
    \/ \E o \in NwsOutcomes : ResumePoints(1, o)
    \/ \E o \in NwsOutcomes : ResumeForecast(1, o)
    \/ \E lat \in Coordinates, lon \in Coordinates : CallIndianForecast(1, lat, lon)
    \/ \E o \in MeteoOutcomes : ResumeIndianForecast(1, o)
    \/ \E x \in InputStrings : CallMyTool(1, x)
    \/ Finish(1)

Spec == Init /\ [][Next]_vars

\* Concurrent invocations, with one answer of each kind the code tells apart.
ConcNwsOutcomes ==
    {Failed("timeout"),
     Response(200, [features |-> <<>>]),
     Response(200, [features |-> <<Feature(FullProps, AlertFields)>>]),
     Response(200, [properties |-> [forecast |-> "https://api.weather.gov/gridpoints/STO/41,68/forecast"]]),
     Response(200, [properties |-> [periods |-> <<Period1>>]]),
     Response(200, [properties |-> EmptyDict])}

ConcMeteoOutcomes == {Failed("timeout"), Response(200, Hourly)}

NextConc ==
    \E i \in Slots :
        \/ \E s \in StateCodes : CallAlerts(i, s)
        \/ \E o \in ConcNwsOutcomes : ResumeAlerts(i, o)
        \/ CallForecast(i, 400, -755)
        \/ \E o \in ConcNwsOutcomes : ResumePoints(i, o)
        \/ \E o \in ConcNwsOutcomes : ResumeForecast(i, o)
        \/ CallIndianForecast(i, 400, -755)
        \/ \E o \in ConcMeteoOutcomes : ResumeIndianForecast(i, o)
        \/ \E x \in {"", "x"} : CallMyTool(i, x)
        \/ Finish(i)

SpecConc == Init /\ [][NextConc]_vars

------------------------------------------------------------------------------
(* Vocabulary of the properties *)

Done(f) == f.pc \in {"returned", "raised"}

\* The GET with outcome o succeeded: a response came, with a 2xx status and a
\* body that decodes.
FetchOk(o) ==
    /\ o.kind = "response"
    /\ o.status \in 200..299
    /\ ~Is(o.body, NotJson)

HasFeatures(o) == FetchOk(o) /\ "features" \in DOMAIN o.body

HasForecastUrl(o) ==
    /\ FetchOk(o)
    /\ "properties" \in DOMAIN o.body
    /\ "forecast" \in DOMAIN o.body["properties"]

HasPeriods(o) ==
    /\ FetchOk(o)
    /\ "properties" \in DOMAIN o.body
    /\ "periods" \in DOMAIN o.body["properties"]

FailSoftOps == {"get_weather_alerts", "get_forecast"}

------------------------------------------------------------------------------
(* C1 *)

\* C1: get_weather_alerts and get_forecast never raise: whatever the outcome
\* of each fetch and the shape of the body, an invocation that has ended has
\* returned a string.  (Stated as the claim states it; the code violates it.)
C1_FailSoftNeverRaises ==
    \A i \in Slots :
        (frames[i].op \in FailSoftOps /\ Done(frames[i]))
            => (frames[i].pc = "returned" /\ frames[i].exc = "")

------------------------------------------------------------------------------
(* C2 *)

\* C2: get_forecast sends its second GET only after a first fetch that
\* succeeded and carried properties.forecast, and sends it to that URL; after
\* any other first fetch it has returned exactly "Unable to fetch forecast
\* data." with one GET sent.
C2_SecondFetchOnlyWithForecastUrl ==
    \A i \in Slots :
        LET f == frames[i]
        IN  f.op = "get_forecast" =>
              /\ Len(f.requests) >= 2 =>
                    /\ Len(f.requests) = 2
                    /\ Len(f.outcomes) >= 1
                    /\ HasForecastUrl(f.outcomes[1])
                    /\ f.requests[2] = f.outcomes[1].body["properties"]["forecast"]
              /\ (Len(f.outcomes) >= 1 /\ ~HasForecastUrl(f.outcomes[1])) =>
                    /\ f.pc = "returned"
                    /\ f.result = "Unable to fetch forecast data."
                    /\ Len(f.requests) = 1

\* The points endpoint answered {"properties": {}}: the fallback is returned
\* after one GET.
C2_Witness ==
    \E i \in Slots :
        /\ frames[i].op = "get_forecast"
        /\ frames[i].outcomes = <<Response(200, [properties |-> EmptyDict])>>
        /\ frames[i].pc = "returned"
        /\ frames[i].result = "Unable to fetch forecast data."
        /\ Len(frames[i].requests) = 1

------------------------------------------------------------------------------
(* C3 *)

\* C3: an ended get_weather_alerts has returned "No active weather alerts for
\* the specified state." if and only if its fetch succeeded and the features
\* of the response are the empty sequence.
C3_NoActiveIffEmptyFeatures ==
    \A i \in Slots :
        LET f == frames[i]
        IN  (f.op = "get_weather_alerts" /\ Done(f)) =>
              ( (f.pc = "returned"
                   /\ f.result = "No active weather alerts for the specified state.")
                <=> (HasFeatures(f.outcomes[1])
                       /\ Len(f.outcomes[1].body["features"]) = 0) )

C3_Witness ==
    \E i \in Slots :
        /\ frames[i].op = "get_weather_alerts"
        /\ frames[i].state = "CA"
        /\ frames[i].outcomes = <<Response(200, [features |-> <<>>])>>
        /\ frames[i].pc = "returned"
        /\ frames[i].result = "No active weather alerts for the specified state."

------------------------------------------------------------------------------
(* C4 *)

\* C4: an ended get_weather_alerts whose fetch failed, or whose response has
\* no "features" key, has returned "No alerts found or unable to fetch
\* alerts", for every state argument.
C4_NoAlertsOnFailureOrNoFeatures ==
    \A i \in Slots :
        LET f == frames[i]
        IN  (f.op = "get_weather_alerts" /\ Len(f.outcomes) >= 1
               /\ ~HasFeatures(f.outcomes[1])) =>
              /\ f.pc = "returned"
              /\ f.result = "No alerts found or unable to fetch alerts"

\* A 404 whose body does hold a "features" key: the fetch failed.
C4_Witness ==
    \E i \in Slots :
        /\ frames[i].op = "get_weather_alerts"
        /\ frames[i].outcomes = <<Response(404, [features |-> <<>>])>>
        /\ frames[i].pc = "returned"
        /\ frames[i].result = "No alerts found or unable to fetch alerts"

------------------------------------------------------------------------------
(* C5 *)

CompletePeriods(ps) == \A k \in 1..Len(ps) : PeriodFields \subseteq DOMAIN ps[k]

\* C5: when both fetches of get_forecast succeeded and the second response
\* holds a sequence of n periods, the invocation has returned, without error,
\* min(3, n) blocks joined by "\n---\n": the k-th block is the formatted k-th
\* period of the response.
C5_FirstThreePeriodsInOrder ==
    \A i \in Slots :
        LET f == frames[i]
        IN  (f.op = "get_forecast" /\ Len(f.outcomes) = 2
               /\ HasPeriods(f.outcomes[2])
               /\ CompletePeriods(f.outcomes[2].body["properties"]["periods"])) =>
              LET ps == f.outcomes[2].body["properties"]["periods"]
                  m == IF Len(ps) < 3 THEN Len(ps) ELSE 3
              IN  /\ f.pc = "returned"
                  /\ Len(f.forecasts) = m
                  /\ \A k \in 1..m : f.forecasts[k] = format_period(ps[k]).ret
                  /\ f.result = Join("\n---\n", f.forecasts)

\* More than three periods, not all alike, came back; three blocks are returned.
C5_Witness ==
    \E i \in Slots :
        /\ frames[i].op = "get_forecast"
        /\ Len(frames[i].outcomes) = 2
        /\ HasPeriods(frames[i].outcomes[2])
        /\ LET ps == frames[i].outcomes[2].body["properties"]["periods"]
           IN  /\ Len(ps) > 3
               /\ CompletePeriods(ps)
               /\ ps[1] # ps[2]
        /\ frames[i].pc = "returned"
        /\ Len(frames[i].forecasts) = 3

------------------------------------------------------------------------------
(* C6 *)

\* The value of a field of an alert, or the documented text when it is absent.
Shown(props, field, fallback) ==
    IF field \in DOMAIN props THEN props[field] ELSE fallback

AlertText(props) ==
       "\n        Event: " \o Shown(props, "event", "Unknown")
    \o "\n        Area: " \o Shown(props, "areaDesc", "Unknown")
    \o "\n        Severity: " \o Shown(props, "severity", "Unknown")
    \o "\n        Description: "
    \o Shown(props, "description", "No description available")
    \o "\n        Instructions: "
    \o Shown(props, "instruction", "No specific instructions provided")
    \o "\n        "

\* C6: every alert feature, whichever of event, areaDesc, severity,
\* description and instruction its properties lack, is formatted without an
\* error as the template with the value of each field present and the
\* documented fallback text for each field absent.
C6_FallbackForExactlyTheMissingFields ==
    \A i \in Slots :
        LET f == frames[i]
        IN  (f.op = "get_weather_alerts" /\ Len(f.outcomes) >= 1
               /\ HasFeatures(f.outcomes[1])
               /\ Len(f.outcomes[1].body["features"]) > 0
               /\ \A k \in 1..Len(f.outcomes[1].body["features"]) :
                      "properties" \in DOMAIN f.outcomes[1].body["features"][k]) =>
              LET fs == f.outcomes[1].body["features"]
              IN  /\ f.pc = "returned"
                  /\ Len(f.alerts) = Len(fs)
                  /\ \A k \in 1..Len(fs) :
                         f.alerts[k] = AlertText(fs[k]["properties"])

\* An alert with event and description only.
C6_Witness ==
    \E i \in Slots :
        /\ frames[i].op = "get_weather_alerts"
        /\ frames[i].outcomes =
             <<Response(200, [features |->
                 <<Feature(FullProps, {"event", "description"})>>])>>
        /\ frames[i].pc = "returned"
        /\ frames[i].result =
               "\n        Event: Flood Warning"
            \o "\n        Area: Unknown"
            \o "\n        Severity: Unknown"
            \o "\n        Description: River is rising"
            \o "\n        Instructions: No specific instructions provided"
            \o "\n        "

------------------------------------------------------------------------------
(* C7 *)

\* C7: whenever a GET of make_nws_request failed (transport error, timeout,
\* non-2xx status, body that does not decode), the helper gave its caller None,
\* the same for every cause, and the caller did not end in an error.
C7_HelperYieldsNoneOnEveryFailure ==
    \A i \in Slots :
        LET f == frames[i]
        IN  f.op \in FailSoftOps =>
              /\ (Len(f.outcomes) >= 1 /\ ~FetchOk(f.outcomes[1])) =>
                    (Is(f.data, None) /\ f.pc # "raised")
              /\ (Len(f.outcomes) >= 2 /\ ~FetchOk(f.outcomes[2])) =>
                    (Is(f.forecast_data, None) /\ f.pc # "raised")

\* The second GET of get_forecast was answered 200 with a body that is no JSON.
C7_Witness ==
    \E i \in Slots :
        /\ frames[i].op = "get_forecast"
        /\ Len(frames[i].outcomes) = 2
        /\ frames[i].outcomes[2] = Response(200, NotJson)
        /\ Is(frames[i].forecast_data, None)
        /\ frames[i].pc = "returned"

------------------------------------------------------------------------------
(* C8 *)

\* C8: no fetch is retried: an invocation of get_weather_alerts has sent
\* exactly one GET, one of get_indian_forecast exactly one, one of get_forecast
\* one or two, one of my_tool none, whatever the outcomes.
C8_RequestCounts ==
    \A i \in Slots :
        LET f == frames[i]
            n == Len(f.requests)
        IN  /\ f.op = "get_weather_alerts" => n = 1
            /\ f.op = "get_indian_forecast" => n = 1
            /\ f.op = "get_forecast" => n \in {1, 2}
            /\ f.op = "my_tool" => n = 0
            /\ Len(f.outcomes) <= n
            /\ Done(f) => Len(f.outcomes) = n

\* Both GETs of a get_forecast were sent and the second timed out.
C8_Witness ==
    \E i \in Slots :
        /\ frames[i].op = "get_forecast"
        /\ Len(frames[i].requests) = 2
        /\ Len(frames[i].outcomes) = 2
        /\ frames[i].outcomes[2] = Failed("timeout")
        /\ frames[i].pc = "returned"

------------------------------------------------------------------------------
(* C9 *)

\* C9: an ended get_indian_forecast whose GET failed in the transport, or whose
\* body does not decode, has raised and returned nothing; otherwise it has
\* returned the text of the decoded body.
C9_IndianForecastFailOpen ==
    \A i \in Slots :
        LET f == frames[i]
        IN  (f.op = "get_indian_forecast" /\ Done(f)) =>
              LET o == f.outcomes[1]
              IN  IF o.kind # "response" \/ Is(o.body, NotJson)
                  THEN f.pc = "raised" /\ f.exc # "" /\ f.result = ""
                  ELSE f.pc = "returned" /\ f.exc = "" /\ f.result = PyStr(o.body)

C9_Witness ==
    \E i \in Slots :
        /\ frames[i].op = "get_indian_forecast"
        /\ frames[i].outcomes = <<Failed("timeout")>>
        /\ frames[i].pc = "raised"
        /\ frames[i].exc = "TimeoutException"

------------------------------------------------------------------------------
(* C10 *)

\* The frame of a call, from the name of the tool and its arguments.
CallFrame(f) ==
    CASE f.op = "get_weather_alerts" -> get_weather_alerts_call(IdleFrame, f.state)
      [] f.op = "get_forecast" -> get_forecast_call(IdleFrame, f.lat, f.lon)
      [] f.op = "get_indian_forecast" ->
             get_indian_forecast_call(IdleFrame, f.lat, f.lon)
      [] f.op = "my_tool" -> my_tool(IdleFrame, f.input_string)

\* The frame after the GET it waits for completes with o.
Resume(f, o) ==
    CASE f.pc = "await_alerts" -> get_weather_alerts_resume(f, o)
      [] f.pc = "await_points" -> get_forecast_resume_points(f, o)
      [] f.pc = "await_forecast" -> get_forecast_resume_forecast(f, o)
      [] f.pc = "await_get" -> get_indian_forecast_resume(f, o)

\* The invocation run alone, its GETs answered by outs in turn.
RECURSIVE RunAlone(_, _)
RunAlone(f, outs) ==
    IF Len(outs) = 0 THEN f ELSE RunAlone(Resume(f, Head(outs)), Tail(outs))

\* C10: under every interleaving of the steps of concurrent invocations, the
\* frame of each invocation (its position, its locals, the GETs it sent, its
\* result or error) is the one it has when it runs alone with the same
\* arguments and the same answers to its own GETs; an idle slot holds nothing.
C10_EachInvocationAsIfAlone ==
    \A i \in Slots :
        IF frames[i].pc = "idle" THEN frames[i] = IdleFrame
        ELSE frames[i] = RunAlone(CallFrame(frames[i]), frames[i].outcomes)

\* Two invocations in flight at once, each with an answer of its own.
C10_Witness ==
    \E i, j \in Slots :
        /\ i # j
        /\ frames[i].op = "get_weather_alerts"
        /\ frames[i].outcomes = <<Response(200, [features |-> <<>>])>>
        /\ frames[i].pc = "returned"
        /\ frames[j].op = "get_forecast"
        /\ frames[j].pc = "await_forecast"
        /\ Len(frames[j].outcomes) = 1

====
